---- MODULE Spec2Model ----
(***************************************************************************)
(* onert training compiler (TrainingCompiler::TrainingCompiler and         *)
(* TrainingCompiler::compile) and the cker training kernels (Loss.h,       *)
(* BinaryArithmetic.h), as state machines.                                 *)
(*                                                                         *)
(* Spec        : one TrainingCompiler instance, from construction to the   *)
(*               return (or throw) of compile().                           *)
(* SpecKernel  : one call of a cker::train kernel on bounded tensors.      *)
(***************************************************************************)
EXTENDS Integers, Sequences, FiniteSets, TLC

\* ------------------------------------------------------------------ bounds
MaxOps == 3
MaxModels == 2
MaxSubgraphs == 2
MaxVal == 1

\* ------------------------------------------------------------------ state
VARIABLES
  nnpkg,               \* the ir::NNPkg handed to the constructor
  copts,               \* copts[0].get(): the CompilerOptions, or NullOptions
  pc,                  \* position of the compiler instance
  error,               \* what() of the exception that left the constructor or compile()
  model,               \* TrainingCompiler::_model (NoModel once reset)
  options,             \* TrainingCompiler::_options
  passLog,             \* per subgraph: the passes run on it, in order
  cur,                 \* subgraph whose conversion callback is running, or NoSubg
  trainable_subg,      \* the TrainableGraph being converted in that callback
  pendingOps,          \* operations the conversion loop still has to visit
  trainable_subgraphs, \* local map SubgraphIndex -> TrainableGraph
  lowered_subgs,       \* local map SubgraphIndex -> LoweredTrainableGraph (or Moved)
  inferred,            \* subgraphs whose StaticShapeInferer has run
  validated,           \* subgraphs the ShapeValidator accepted
  executors,           \* exec::train::TrainableExecutors: key <<model, subg>> -> executor
  artifact,            \* the returned CompilerArtifact, or NoArtifact
  iter,                \* locals of the running iteration of the executor loop, or NoIter
  kpc,                 \* position of the kernel call: "off", "ready", "returned", "thrown"
  kargs,               \* the shapes and input buffers the kernel is called with
  kres                 \* the kernel that ran and the output buffers it left

compilerVars == <<nnpkg, copts, pc, error, model, options, passLog, cur, trainable_subg,
                  pendingOps, trainable_subgraphs, lowered_subgs, inferred, validated,
                  executors, artifact, iter>>
kernelVars == <<kpc, kargs, kres>>
vars == <<compilerVars, iter, kernelVars>>

\* ------------------------------------------------------------------ values
NullOptions == [null |-> TRUE]
NoModel == [reset |-> TRUE]
NoSubg == -1
NoGraph == [none |-> TRUE]
Moved == [moved |-> TRUE]
NoArtifact == [none |-> TRUE]
NoIter == [none |-> TRUE]
Empty == <<>>

ExecutorKinds == {"Linear", "Dataflow", "Parallel"}
MinmaxPaths == {"", "minmax.h5"}

OptionValues ==
  [he_profiling_mode : BOOLEAN, he_scheduler : BOOLEAN,
   executor : ExecutorKinds, minmax_filepath : MinmaxPaths]

OpIdx == 0 .. (MaxOps - 1)

\* a uses-relation is a set of pairs <<a, b>>: operation b consumes an output of a
RECURSIVE Closure(_, _)
Closure(E, n) ==
  IF n = 0 THEN E
  ELSE LET C == Closure(E, n - 1)
       IN  C \cup {<<q[1][1], q[2][2]>> : q \in {r \in C \X C : r[1][2] = r[2][1]}}

Reach(E) == Closure(E, MaxOps)
Acyclic(E) == \A p \in Reach(E) : p[1] # p[2]

\* ir::Operation of an inference graph, identified by the index it was loaded at
InferenceOp(i) == [id |-> i, trainable |-> FALSE]

\* ir::Graph: operations by OperationIndex (holes allowed) and their data dependencies
GraphsOver(S) ==
  {[ops |-> [i \in S |-> InferenceOp(i)], uses |-> E] :
     E \in {F \in SUBSET {p \in S \X S : p[1] # p[2]} : Acyclic(F)}}
Graphs == UNION {GraphsOver(S) : S \in SUBSET OpIdx}

\* ir::NNPkg: model_count(), primary_model()->subgraphs_count(), hasOnly<ir::Graph>()
\* (a model without subgraphs has only Graphs)
Packages ==
  {pkg \in [model_count : 1 .. MaxModels, subgraphs_count : 0 .. MaxSubgraphs,
            hasOnlyGraph : BOOLEAN, graph : Graphs] :
     pkg.subgraphs_count = 0 => pkg.hasOnlyGraph}

SubgraphsOf(pkg) == 0 .. (pkg.subgraphs_count - 1)

\* nnpkg->primary_model(): every subgraph of the primary model
primary_model(pkg) ==
  [subgraphs |-> [sg \in SubgraphsOf(pkg) |-> pkg.graph], hasOnlyGraph |-> pkg.hasOnlyGraph]

\* ------------------------------------------------------------ error texts
ErrMultiModel == "TrainingCompiler does not support multiple models yet"
ErrMultiSubgraph == "TrainingCompiler does not support multiple subgraphs yet"
ErrEmptyOption == "Empty compile option"
ErrScheduler == "Heterogeneous scheduler must be enabled during profiling."
ErrProfiling == "Profiling mode works only with 'Dataflow' executor"
ErrMinmax == "Recording minmax works only with Linear executor"
ErrInvalidModel == "TrainingCompiler: Invalid model"
ErrPass == "pass failed"
ErrConvert == "no trainable conversion"
ErrLower == "no backend for operation"
ErrOutOfRange == "unordered_map::at"
ErrInfer == "shape inference failed"
ErrShape == "shape validation failed"
ErrExecutor == "executor creation failed"
ErrDuplicate == "duplicate executor key"
OK == "OK"

ConfigErrors == {ErrEmptyOption, ErrScheduler, ErrProfiling, ErrMinmax}

\* ------------------------------------------------------------ constructor
\* the constructor without the subgraph-count check
CtorCheck_modelsOnly(pkg) ==
  IF pkg.model_count > 1 THEN ErrMultiModel ELSE OK

\* TrainingCompiler::TrainingCompiler, the two checks of the body
CtorCheck(pkg) ==
  IF pkg.model_count > 1 THEN ErrMultiModel
  ELSE IF pkg.subgraphs_count > 1 THEN ErrMultiSubgraph
  ELSE OK

\* ------------------------------------------------------------ compile(): options
\* the mode checks without the executor test of profiling mode
CheckOptions_noDataflowTest(o) ==
  IF o = NullOptions THEN ErrEmptyOption
  ELSE IF o.he_profiling_mode /\ ~o.he_scheduler THEN ErrScheduler
  ELSE IF o.minmax_filepath # "" /\ o.executor # "Linear" THEN ErrMinmax
  ELSE OK

\* the mode checks with the minmax test inverted
CheckOptions_minmaxInverted(o) ==
  IF o = NullOptions THEN ErrEmptyOption
  ELSE IF o.he_profiling_mode /\ ~o.he_scheduler THEN ErrScheduler
  ELSE IF o.he_profiling_mode /\ o.executor # "Dataflow" THEN ErrProfiling
  ELSE IF o.minmax_filepath # "" /\ o.executor = "Linear" THEN ErrMinmax
  ELSE OK

\* "Prepare compilation phase": the null check and the mode checks
CheckOptions(o) ==
  IF o = NullOptions THEN ErrEmptyOption
  ELSE IF o.he_profiling_mode /\ ~o.he_scheduler THEN ErrScheduler
  ELSE IF o.he_profiling_mode /\ o.executor # "Dataflow" THEN ErrProfiling
  ELSE IF o.minmax_filepath # "" /\ o.executor # "Linear" THEN ErrMinmax
  ELSE OK

\* ------------------------------------------------------------ compile(): passes
\* the passes with the optimization runner invoked before the mandatory one
PassList_optimizationFirst == <<"UnusedOperandEliminationPass", "ConstantOutputPass", "OddOutputPass">>

\* the passes of the two PassRunner invocations, in append order
PassList == <<"ConstantOutputPass", "OddOutputPass", "UnusedOperandEliminationPass">>

\* ------------------------------------------------------------ compile(): conversion
Min(S) == CHOOSE x \in S : \A y \in S : x <= y

\* ir::train::TrainableGraph(const ir::Graph &): a copy of the graph
TrainableGraph(subg) == [ops |-> subg.ops, uses |-> subg.uses]

\* TrainableOperationConverter::operator(): the trainable equivalent of op
converter(op) == [op EXCEPT !.trainable = TRUE]

\* TrainableGraph::replaceOperation: table update at index, returns the index
replaceOperation(g, index, op) ==
  [graph |-> [g EXCEPT !.ops = [@ EXCEPT ![index] = op]], gen_index |-> index]

\* TrainableGraph::addOperation: stores op under a fresh index and returns it
addOperation(g, op) ==
  LET fresh == Min({i \in 0 .. (2 * MaxOps) : i \notin DOMAIN g.ops})
  IN  [graph |-> [g EXCEPT !.ops = [i \in DOMAIN @ \cup {fresh} |->
                                       IF i = fresh THEN op ELSE @[i]]],
       gen_index |-> fresh]

\* the callback appending the converted operation instead of replacing at op_index
ConvertOperation_appends(g, op_index, op) == addOperation(g, converter(op))

\* body of the operations().iterate callback: convert, then replace at op_index
ConvertOperation(g, op_index, op) == replaceOperation(g, op_index, converter(op))

\* ------------------------------------------------------------ compile(): lowering
\* producers of operation o inside graph g
Producers(g, o) == {p[1] : p \in {q \in g.uses : q[2] = o}}

\* the deterministic topological order of lowering: repeatedly rank the
\* lowest-indexed operation all of whose producers are ranked
RECURSIVE TopoRanks(_, _, _)
TopoRanks(g, ranked, next) ==
  LET todo == DOMAIN g.ops \ DOMAIN ranked
      ready == {o \in todo : Producers(g, o) \subseteq DOMAIN ranked}
  IN  IF ready = {} THEN ranked
      ELSE LET o == Min(ready)
           IN  TopoRanks(g, [x \in DOMAIN ranked \cup {o} |->
                                IF x = o THEN next ELSE ranked[x]], next + 1)

\* LoweredTrainableGraph(trainable_subg, options): the graph, its indexed ranks and
\* the operations whose output tensor has no defined shape yet
LoweredTrainableGraph(g) ==
  [graph |-> g, indexed_ranks |-> TopoRanks(g, Empty, 0), undefined |-> DOMAIN g.ops]

\* ------------------------------------------------------------ compile(): executors
\* the executor as created, setIndexedRanks never called on it
NewExecutor_ranksNotSet(lowered, kind, ranks) ==
  [lowered_graph |-> lowered, kind |-> kind, indexed_ranks |-> Empty]

\* ExecutorFactory::create takes the lowered graph; setIndexedRanks stores the ranks
NewExecutor(lowered, kind, ranks) ==
  [lowered_graph |-> lowered, kind |-> kind, indexed_ranks |-> ranks]

\* the key built from a model index other than 0
ExecutorKey_wrongModel(subg_index) == <<1, subg_index>>

\* the key an executor is emplaced under: (model_index, subg_index)
ExecutorKey(subg_index) == <<0, subg_index>>

\* TrainableExecutors::emplace
emplace(execs, key, executor) ==
  [k \in DOMAIN execs \cup {key} |-> IF k = key THEN executor ELSE execs[k]]

\* ================================================================ cker::train kernels
\* a Shape is the sequence of its extents; buffers are 1-based sequences, so the
\* element the code calls data[i] is data[i + 1] here

\* Shape::DimensionsCount, Shape::Dims(i)
DimensionsCount(shape) == Len(shape)
Dims(shape, i) == shape[i + 1]

RECURSIVE Product(_, _)
Product(shape, skip) ==
  IF shape = <<>> THEN 1
  ELSE (IF Len(shape) = skip THEN 1 ELSE shape[Len(shape)])
         * Product(SubSeq(shape, 1, Len(shape) - 1), skip)

\* Shape::FlatSize: the product of all extents
FlatSize(shape) == Product(shape, 0)

\* FlatSizeSkipDim(shape, skip_dim): the product of all extents but that of skip_dim
FlatSizeSkipDim(shape, skip_dim) == Product(shape, skip_dim + 1)

\* a float result, kept exact as numerator over denominator
Frac(n, d) == [num |-> n, den |-> d]
FracEq(a, b) == a.den # 0 /\ b.den # 0 /\ a.num * b.den = b.num * a.den

\* an element of an output buffer the kernel has not stored to
Unwritten == [num |-> 0, den |-> 0]
UnwrittenBuffer(shape) == [i \in 1 .. FlatSize(shape) |-> Unwritten]

\* template <typename T> T square(T value)
square(value) == value * value

RECURSIVE SumOver(_, _)
SumOver(data, S) ==
  IF S = {} THEN 0
  ELSE LET x == CHOOSE y \in S : TRUE IN data[x] + SumOver(data, S \ {x})

\* the sum the inner loop of MSE leaves in `sum` for batch row b
SquaredErrorSum(y_pred_data, y_true_data, b, size) ==
  SumOver([i \in 1 .. size |->
             square(y_pred_data[b * size + i] - y_true_data[b * size + i])],
          1 .. size)

\* MSE without the comparison of the output extent with the batch of y_pred
MSE_noBatchCheck(y_pred_shape, y_pred_data, y_true_shape, y_true_data, output_shape, output_data) ==
  IF DimensionsCount(output_shape) # 1
    THEN [status |-> "cker::MSE: output dimension count should be 1",
          output_data |-> output_data]
  ELSE IF y_pred_shape # y_true_shape
    THEN [status |-> "cker::MSE: y_pred_shape != y_true_shape",
          output_data |-> output_data]
  ELSE LET batch == Dims(y_pred_shape, 0)
           size == FlatSizeSkipDim(y_pred_shape, 0)
       IN  [status |-> OK,
            output_data |->
              [b \in 1 .. batch |->
                 Frac(SquaredErrorSum(y_pred_data, y_true_data, b - 1, size), size)]]

\* cker::train::MSE
MSE(y_pred_shape, y_pred_data, y_true_shape, y_true_data, output_shape, output_data) ==
  IF DimensionsCount(output_shape) # 1
    THEN [status |-> "cker::MSE: output dimension count should be 1",
          output_data |-> output_data]
  ELSE IF Dims(output_shape, 0) # Dims(y_pred_shape, 0)
    THEN [status |-> "cker::MSE: output and y_pred do not have the same batch",
          output_data |-> output_data]
  ELSE IF y_pred_shape # y_true_shape
    THEN [status |-> "cker::MSE: y_pred_shape != y_true_shape",
          output_data |-> output_data]
  ELSE LET batch == Dims(y_pred_shape, 0)
           size == FlatSizeSkipDim(y_pred_shape, 0)
       IN  [status |-> OK,
            output_data |->
              [b \in 1 .. batch |->
                 Frac(SquaredErrorSum(y_pred_data, y_true_data, b - 1, size), size)]]

\* cker::train::MSEGrad
MSEGrad(y_pred_shape, y_pred_data, y_true_shape, y_true_data, grad_shape, grad_data) ==
  IF y_pred_shape # y_true_shape
    THEN [status |-> "cker::MSEGrad: y_pred_shape != y_true_shape", grad_data |-> grad_data]
  ELSE IF y_pred_shape # grad_shape
    THEN [status |-> "cker::MSEGrad: y_pred_shape != grad_shape", grad_data |-> grad_data]
  ELSE LET size == FlatSize(grad_shape)
       IN  [status |-> OK,
            grad_data |->
              [i \in 1 .. size |-> Frac(-2 * (y_true_data[i] - y_pred_data[i]), size)]]

\* y_pred of the cross-entropy kernels is kept in tenths: 15 is 1.5, -1 is -0.1,
\* and ProbUnit is static_cast<T>(1)
ProbUnit == 10

\* checkValue with the test against min left out
checkValue_maxOnly(data, size, min, max) ==
  \A i \in 1 .. size : ~(data[i] > max)

\* checkValue: false as soon as one of the first `size` elements is outside [min, max]
checkValue(data, size, min, max) ==
  \A i \in 1 .. size : ~(data[i] > max \/ data[i] < min)

\* std::max(y, 1.0e-20) of a value in tenths
MaxTiny(y) == IF y > 0 THEN [tenths |-> y] ELSE [tiny |-> TRUE]

\* the terms -log(max(y_prob, 1e-20)) * y_true that batch row b adds to sum[b]
CrossEntropyTerms(y_prob_data, y_true_data, b, input_size) ==
  LET b_offset == b * input_size
  IN  {<<i, MaxTiny(y_prob_data[b_offset + i + 1]), y_true_data[b_offset + i + 1]>> :
         i \in {j \in 0 .. (input_size - 1) : y_true_data[b_offset + j + 1] # 0}}

\* cker::train::CategoricalCrossEntropy
CategoricalCrossEntropy(y_pred_data, y_true_data, output_data, batch_size, input_size) ==
  IF ~checkValue(y_pred_data, input_size * batch_size, 0, ProbUnit)
    THEN [status |-> "cker::CategoricalCrossEntropy: y_pred data is not logit data.",
          output_data |-> output_data]
    ELSE [status |-> OK,
          output_data |->
            [output_data EXCEPT ![1] =
               [sum |-> [b \in 0 .. (batch_size - 1) |->
                           CrossEntropyTerms(y_pred_data, y_true_data, b, input_size)],
                over |-> batch_size]]]

\* cker::train::CategoricalCrossEntropyGrad
CategoricalCrossEntropyGrad(y_pred_data, y_true_data, grad_data, batch_size, input_size) ==
  IF ~checkValue(y_pred_data, input_size * batch_size, 0, ProbUnit)
    THEN [status |-> "cker::CategoricalCrossEntropyGrad: y_pred data is not logit data.",
          grad_data |-> grad_data]
    ELSE [status |-> OK,
          grad_data |->
            [k \in 1 .. (batch_size * input_size) |->
               [minus |-> y_true_data[k], over |-> MaxTiny(y_pred_data[k])]]]

\* enum class ArithmeticType
ArithmeticType == {"kAdd", "kSub", "kMul", "kDiv"}

\* the input coordinates along one axis that land on output coordinate o
AxisSources(o, in_extent, out_extent) ==
  IF in_extent = out_extent THEN {o}
  ELSE IF out_extent = 1 THEN 0 .. (in_extent - 1)
  ELSE {0}

\* cker::BroadcastTo on rank-2 shapes, as the reduction-broadcast of a gradient:
\* an axis of equal extent is copied, an axis the output has at extent 1 is
\* summed, an axis the input has at extent 1 is repeated
BroadcastTo(input_shape, input_data, output_shape) ==
  [k \in 1 .. FlatSize(output_shape) |->
     LET r == (k - 1) \div output_shape[2]
         c == (k - 1) % output_shape[2]
         src == {rr * input_shape[2] + cc + 1 :
                   rr \in AxisSources(r, input_shape[1], output_shape[1]),
                   cc \in AxisSources(c, input_shape[2], output_shape[2])}
     IN  Frac(SumOver(input_data, src), 1)]

\* kAdd with the second BroadcastTo given the lhs shape and written to the lhs buffer
BinaryArithmeticGrad_rhsNotWritten(incoming_shape, incoming_data, lhs_grad_shape, lhs_grad_data, rhs_grad_shape, rhs_grad_data, arithmetic_type) ==
  IF arithmetic_type = "kAdd"
    THEN [status |-> OK,
          lhs_grad_data |-> BroadcastTo(incoming_shape, incoming_data, lhs_grad_shape),
          rhs_grad_data |-> rhs_grad_data]
    ELSE [status |-> "Unsupported Binary Arithmetic Operation",
          lhs_grad_data |-> lhs_grad_data, rhs_grad_data |-> rhs_grad_data]

\* the switch with kSub sharing the case of kAdd
BinaryArithmeticGrad_subAsAdd(incoming_shape, incoming_data, lhs_grad_shape, lhs_grad_data, rhs_grad_shape, rhs_grad_data, arithmetic_type) ==
  IF arithmetic_type \in {"kAdd", "kSub"}
    THEN [status |-> OK,
          lhs_grad_data |-> BroadcastTo(incoming_shape, incoming_data, lhs_grad_shape),
          rhs_grad_data |-> BroadcastTo(incoming_shape, incoming_data, rhs_grad_shape)]
    ELSE [status |-> "Unsupported Binary Arithmetic Operation",
          lhs_grad_data |-> lhs_grad_data, rhs_grad_data |-> rhs_grad_data]

\* cker::train::BinaryArithmeticGrad
BinaryArithmeticGrad(incoming_shape, incoming_data, lhs_grad_shape, lhs_grad_data, rhs_grad_shape, rhs_grad_data, arithmetic_type) ==
  IF arithmetic_type = "kAdd"
    THEN [status |-> OK,
          lhs_grad_data |-> BroadcastTo(incoming_shape, incoming_data, lhs_grad_shape),
          rhs_grad_data |-> BroadcastTo(incoming_shape, incoming_data, rhs_grad_shape)]
    ELSE [status |-> "Unsupported Binary Arithmetic Operation",
          lhs_grad_data |-> lhs_grad_data, rhs_grad_data |-> rhs_grad_data]

\* ---------------------------------------------------------------- kernel calls
Vals == 0 .. MaxVal
Labels == {0, 1}
LossShapes == {<<1, 4>>, <<2, 3>>, <<4, 1>>}
LossOutputShapes == {<<1>>, <<2>>, <<4>>, <<2, 1>>}
GradShapes == {<<2, 3>>, <<1, 3>>, <<2, 1>>}

Tensors(shape, V) == [1 .. FlatSize(shape) -> V]
Zeros(shape) == [i \in 1 .. FlatSize(shape) |-> 0]

\* y_true buffers paired with a y_pred of shape ps: every label tensor when the
\* shapes agree, one tensor of the other shape when they do not
TrueTensors(ps, ts) == IF ps = ts THEN Tensors(ts, Labels) ELSE {Zeros(ts)}

MSECalls ==
  UNION {UNION {
    [kernel : {"MSE"}, y_pred_shape : {ps}, y_pred_data : Tensors(ps, Vals),
     y_true_shape : {ts}, y_true_data : TrueTensors(ps, ts),
     output_shape : LossOutputShapes] : ts \in LossShapes} : ps \in LossShapes}

MSEGradCalls ==
  UNION {UNION {
    [kernel : {"MSEGrad"}, y_pred_shape : {ps}, y_pred_data : Tensors(ps, Vals),
     y_true_shape : {ts}, y_true_data : TrueTensors(ps, ts),
     grad_shape : {ps, ts}] : ts \in LossShapes} : ps \in LossShapes}

BinaryArithmeticGradCalls ==
  [kernel : {"BinaryArithmeticGrad"}, incoming_shape : {<<2, 3>>},
   incoming_data : Tensors(<<2, 3>>, Vals), lhs_grad_shape : GradShapes,
   rhs_grad_shape : GradShapes, arithmetic_type : ArithmeticType]

\* y_pred values in tenths, inside and outside [0, 1]
ProbVals == {-1, 0, 5, 10, 15}
BatchSizes == {1, 2}
InputSizes == {1, 2}

CrossEntropyCalls ==
  UNION {UNION {
    [kernel : {"CategoricalCrossEntropy", "CategoricalCrossEntropyGrad"},
     y_pred_data : Tensors(<<b, n>>, ProbVals), y_true_data : Tensors(<<b, n>>, Labels),
     batch_size : {b}, input_size : {n}] : n \in InputSizes} : b \in BatchSizes}

\* the output buffers as the caller hands them over
OutputBuffers(call) ==
  IF call.kernel = "MSE" THEN [output_data |-> UnwrittenBuffer(call.output_shape)]
  ELSE IF call.kernel = "MSEGrad" THEN [grad_data |-> UnwrittenBuffer(call.grad_shape)]
  ELSE IF call.kernel = "CategoricalCrossEntropy" THEN [output_data |-> UnwrittenBuffer(<<1>>)]
  ELSE IF call.kernel = "CategoricalCrossEntropyGrad"
    THEN [grad_data |-> UnwrittenBuffer(<<call.batch_size, call.input_size>>)]
  ELSE [lhs_grad_data |-> UnwrittenBuffer(call.lhs_grad_shape),
        rhs_grad_data |-> UnwrittenBuffer(call.rhs_grad_shape)]

\* ================================================================ compiler
NoCall == [none |-> TRUE]

Init ==
  /\ nnpkg \in Packages
  /\ copts \in {NullOptions} \cup OptionValues
  /\ pc = "new"
  /\ error = ""
  /\ model = NoModel
  /\ options = NullOptions
  /\ passLog = Empty
  /\ cur = NoSubg
  /\ trainable_subg = NoGraph
  /\ pendingOps = {}
  /\ trainable_subgraphs = Empty
  /\ lowered_subgs = Empty
  /\ inferred = {}
  /\ validated = {}
  /\ executors = Empty
  /\ artifact = NoArtifact
  /\ iter = NoIter
  /\ kpc = "off"
  /\ kargs = NoCall
  /\ kres = NoCall

\* an exception leaves compile(): nothing is returned; the locals keep, as a record,
\* what had been built when it was thrown
Throw(msg) ==
  /\ pc' = "failed"
  /\ error' = msg

\* TrainingCompiler::TrainingCompiler
Construct ==
  /\ pc = "new"
  /\ model' = primary_model(nnpkg)
  /\ options' = copts
  /\ passLog' = [sg \in SubgraphsOf(nnpkg) |-> <<>>]
  /\ LET r == CtorCheck(nnpkg)
     IN  IF r = OK THEN pc' = "constructed" /\ error' = error
         ELSE pc' = "ctor_failed" /\ error' = r
  /\ UNCHANGED <<nnpkg, copts, cur, trainable_subg, pendingOps, trainable_subgraphs,
                 lowered_subgs, inferred, validated, executors, artifact, iter, kernelVars>>

\* compile(), "Prepare compilation phase"
PrepareCompilation ==
  /\ pc = "constructed"
  /\ LET r == CheckOptions(options)
     IN  IF r = OK THEN pc' = "passes" /\ error' = error
         ELSE Throw(r)
  /\ UNCHANGED <<nnpkg, copts, model, options, passLog, cur, trainable_subg, pendingOps,
                 trainable_subgraphs, lowered_subgs, inferred, validated, executors,
                 artifact, iter, kernelVars>>

\* the subgraph the pass callback of _model->iterate is working on
PassSubgraphs ==
  LET started == {sg \in DOMAIN passLog : Len(passLog[sg]) \in 1 .. (Len(PassList) - 1)}
  IN  IF started # {} THEN started
      ELSE {sg \in DOMAIN passLog : passLog[sg] = <<>>}

\* nnfw::misc::polymorphic_downcast<ir::Graph &>: what the cast of an IGraph can do.
\* On a Graph it yields the Graph. On any other IGraph the checked build stops at the
\* cast, and the unchecked build goes on with a reference to something that is no Graph.
polymorphic_downcast(isGraph) == IF isGraph THEN {"cast"} ELSE {"cast", "assert"}

\* the pass callback is entered for subgraph sg and its downcast stops the program
DowncastFails(sg) ==
  /\ pc = "passes"
  /\ sg \in PassSubgraphs
  /\ passLog[sg] = <<>>
  /\ "assert" \in polymorphic_downcast(model.hasOnlyGraph)
  /\ pc' = "aborted"
  /\ error' = "assert"
  /\ UNCHANGED <<nnpkg, copts, model, options, passLog, cur, trainable_subg, pendingOps,
                 trainable_subgraphs, lowered_subgs, inferred, validated, executors,
                 artifact, iter, kernelVars>>

\* one pass of the PassRunner invocations runs on subgraph sg
RunPass(sg) ==
  /\ pc = "passes"
  /\ sg \in PassSubgraphs
  /\ passLog' = [passLog EXCEPT ![sg] = Append(@, PassList[Len(@) + 1])]
  /\ UNCHANGED <<nnpkg, copts, pc, error, model, options, cur, trainable_subg, pendingOps,
                 trainable_subgraphs, lowered_subgs, inferred, validated, executors,
                 artifact, iter, kernelVars>>

\* the next pass on subgraph sg throws
PassThrows(sg) ==
  /\ pc = "passes"
  /\ sg \in PassSubgraphs
  /\ Throw(ErrPass)
  /\ UNCHANGED <<nnpkg, copts, model, options, passLog, cur, trainable_subg, pendingOps,
                 trainable_subgraphs, lowered_subgs, inferred, validated, executors,
                 artifact, iter, kernelVars>>

\* a pass over a trainable subgraph that deletes its highest-indexed operation
ApplyTrainablePasses_dropsOperation(tsubg) ==
  LET kept == {i \in DOMAIN tsubg.ops : \E j \in DOMAIN tsubg.ops : j > i}
  IN  [ops |-> [i \in kept |-> tsubg.ops[i]],
       uses |-> {p \in tsubg.uses : p[1] \in kept /\ p[2] \in kept}]

\* "Apply pass for trainable subgraphs": the body of the loop over trainable_subgraphs
\* holds the shared pointer in a local and applies no pass to it
ApplyTrainablePasses(tsubg) == tsubg

\* if (_model->hasOnly<ir::Graph>()) ... else throw
CheckHasOnlyGraph ==
  /\ pc = "passes"
  /\ PassSubgraphs = {}
  /\ IF model.hasOnlyGraph THEN pc' = "convert" /\ error' = error
     ELSE Throw(ErrInvalidModel)
  /\ UNCHANGED <<nnpkg, copts, model, options, passLog, cur, trainable_subg, pendingOps,
                 trainable_subgraphs, lowered_subgs, inferred, validated, executors,
                 artifact, iter, kernelVars>>

\* conversion callback entered for subgraph sg: copy the graph
CopyGraph(sg) ==
  /\ pc = "convert"
  /\ cur = NoSubg
  /\ sg \in DOMAIN model.subgraphs \ DOMAIN trainable_subgraphs
  /\ cur' = sg
  /\ trainable_subg' = TrainableGraph(model.subgraphs[sg])
  /\ pendingOps' = DOMAIN model.subgraphs[sg].ops
  /\ UNCHANGED <<nnpkg, copts, pc, error, model, options, passLog, trainable_subgraphs,
                 lowered_subgs, inferred, validated, executors, artifact, iter, kernelVars>>

\* one operation of the subgraph is converted and replaced; the assert on the
\* generated index aborts a debug build and is compiled out of a release build
ConvertOp(op_index) ==
  /\ pc = "convert"
  /\ cur # NoSubg
  /\ op_index \in pendingOps
  /\ LET r == ConvertOperation(trainable_subg, op_index, model.subgraphs[cur].ops[op_index])
     IN  /\ trainable_subg' = r.graph
         /\ \/ pc' = pc /\ error' = error
            \/ r.gen_index # op_index /\ pc' = "aborted" /\ error' = "assert"
  /\ pendingOps' = pendingOps \ {op_index}
  /\ UNCHANGED <<nnpkg, copts, model, options, passLog, cur, trainable_subgraphs,
                 lowered_subgs, inferred, validated, executors, artifact, iter, kernelVars>>

\* the converter has no trainable equivalent for the operation
ConvertThrows(op_index) ==
  /\ pc = "convert"
  /\ cur # NoSubg
  /\ op_index \in pendingOps
  /\ Throw(ErrConvert)
  /\ UNCHANGED <<nnpkg, copts, model, options, passLog, cur, trainable_subg, pendingOps,
                 trainable_subgraphs, lowered_subgs, inferred, validated, executors,
                 artifact, iter, kernelVars>>

\* trainable_subgraphs[subg_index] = std::move(trainable_subg)
StoreTrainable ==
  /\ pc = "convert"
  /\ cur # NoSubg
  /\ pendingOps = {}
  /\ trainable_subgraphs' =
       [sg \in DOMAIN trainable_subgraphs \cup {cur} |->
          IF sg = cur THEN trainable_subg ELSE trainable_subgraphs[sg]]
  /\ cur' = NoSubg
  /\ trainable_subg' = NoGraph
  /\ UNCHANGED <<nnpkg, copts, pc, error, model, options, passLog, pendingOps,
                 lowered_subgs, inferred, validated, executors, artifact, iter, kernelVars>>

\* the step from conversion to lowering with the model still held
ResetModel_keepsModel ==
  /\ pc = "convert"
  /\ cur = NoSubg
  /\ DOMAIN model.subgraphs = DOMAIN trainable_subgraphs
  /\ model' = model
  /\ trainable_subgraphs' =
       [sg \in DOMAIN trainable_subgraphs |-> ApplyTrainablePasses(trainable_subgraphs[sg])]
  /\ pc' = "lower"
  /\ UNCHANGED <<nnpkg, copts, error, options, passLog, cur, trainable_subg, pendingOps,
                 lowered_subgs, inferred, validated, executors, artifact, iter, kernelVars>>

\* _model.reset(), then the pass loop over trainable subgraphs, whose body is empty
ResetModel ==
  /\ pc = "convert"
  /\ cur = NoSubg
  /\ DOMAIN model.subgraphs = DOMAIN trainable_subgraphs
  /\ model' = NoModel
  /\ trainable_subgraphs' =
       [sg \in DOMAIN trainable_subgraphs |-> ApplyTrainablePasses(trainable_subgraphs[sg])]
  /\ pc' = "lower"
  /\ UNCHANGED <<nnpkg, copts, error, options, passLog, cur, trainable_subg, pendingOps,
                 lowered_subgs, inferred, validated, executors, artifact, iter, kernelVars>>

\* Lower: lowered_subgs[subg_index] = make_unique<LoweredTrainableGraph>(...)
Lower(sg) ==
  /\ pc = "lower"
  /\ sg \in DOMAIN trainable_subgraphs \ DOMAIN lowered_subgs
  /\ lowered_subgs' =
       [k \in DOMAIN lowered_subgs \cup {sg} |->
          IF k = sg THEN LoweredTrainableGraph(trainable_subgraphs[sg])
          ELSE lowered_subgs[k]]
  /\ UNCHANGED <<nnpkg, copts, pc, error, model, options, passLog, cur, trainable_subg,
                 pendingOps, trainable_subgraphs, inferred, validated, executors,
                 artifact, iter, kernelVars>>

\* no backend can run an operation of the subgraph
LowerThrows(sg) ==
  /\ pc = "lower"
  /\ sg \in DOMAIN trainable_subgraphs \ DOMAIN lowered_subgs
  /\ Throw(ErrLower)
  /\ UNCHANGED <<nnpkg, copts, model, options, passLog, cur, trainable_subg, pendingOps,
                 trainable_subgraphs, lowered_subgs, inferred, validated, executors,
                 artifact, iter, kernelVars>>

\* the dot dump of every lowered subgraph and createStaticShapeInferers
CreateInferers ==
  /\ pc = "lower"
  /\ DOMAIN lowered_subgs = DOMAIN trainable_subgraphs
  /\ pc' = "infer"
  /\ UNCHANGED <<nnpkg, copts, error, model, options, passLog, cur, trainable_subg,
                 pendingOps, trainable_subgraphs, lowered_subgs, inferred, validated,
                 executors, artifact, iter, kernelVars>>

\* the tensors the inferer of the primary subgraph may leave without a shape
InferOutcomes(lowered) == SUBSET lowered.undefined

\* inferers.at(primary_subg_idx)->infer(), then the dump of every inferer
Infer ==
  /\ pc = "infer"
  /\ IF 0 \notin DOMAIN lowered_subgs
       THEN Throw(ErrOutOfRange) /\ UNCHANGED <<lowered_subgs, inferred>>
       ELSE /\ \E U \in InferOutcomes(lowered_subgs[0]) :
                 lowered_subgs' = [lowered_subgs EXCEPT ![0].undefined = U]
            /\ inferred' = inferred \cup {0}
            /\ pc' = "validate"
            /\ error' = error
  /\ UNCHANGED <<nnpkg, copts, model, options, passLog, cur, trainable_subg, pendingOps,
                 trainable_subgraphs, validated, executors, artifact, iter, kernelVars>>

\* a shape rule of the primary subgraph cannot be applied
InferThrows ==
  /\ pc = "infer"
  /\ 0 \in DOMAIN lowered_subgs
  /\ Throw(ErrInfer)
  /\ UNCHANGED <<nnpkg, copts, model, options, passLog, cur, trainable_subg, pendingOps,
                 trainable_subgraphs, lowered_subgs, inferred, validated, executors,
                 artifact, iter, kernelVars>>

\* compiler::ShapeValidator{graph}(): accepts a graph all of whose tensors have a shape
ShapeValidator(lowered) == IF lowered.undefined = {} THEN OK ELSE ErrShape

\* a validation loop that visits nothing
ToValidate_none == {}

\* the lowered subgraphs the shape validation loop has still to visit
ToValidate == DOMAIN lowered_subgs \ validated

\* one iteration of the shape validation loop
Validate(sg) ==
  /\ pc = "validate"
  /\ sg \in ToValidate
  /\ LET r == ShapeValidator(lowered_subgs[sg])
     IN  IF r = OK THEN validated' = validated \cup {sg} /\ UNCHANGED <<pc, error>>
         ELSE Throw(r) /\ validated' = validated
  /\ UNCHANGED <<nnpkg, copts, model, options, passLog, cur, trainable_subg, pendingOps,
                 trainable_subgraphs, lowered_subgs, inferred, executors, artifact,
                 iter, kernelVars>>

\* the executor stage entered while lowered subgraphs are still to be validated
NewExecutors_beforeValidation ==
  /\ pc = "validate"
  /\ executors' = Empty
  /\ pc' = "executors"
  /\ UNCHANGED <<nnpkg, copts, error, model, options, passLog, cur, trainable_subg,
                 pendingOps, trainable_subgraphs, lowered_subgs, inferred, validated,
                 artifact, iter, kernelVars>>

\* auto executors = std::make_shared<exec::train::TrainableExecutors>()
NewExecutors ==
  /\ pc = "validate"
  /\ ToValidate = {}
  /\ executors' = Empty
  /\ pc' = "executors"
  /\ UNCHANGED <<nnpkg, copts, error, model, options, passLog, cur, trainable_subg,
                 pendingOps, trainable_subgraphs, lowered_subgs, inferred, validated,
                 artifact, iter, kernelVars>>

\* an executor loop that visits nothing
Unbuilt_none == {}

\* subgraphs whose lowered graph has not been handed to the factory yet
Unbuilt == {sg \in DOMAIN lowered_subgs : lowered_subgs[sg] # Moved}

\* the locals of an iteration with the ranks left unread
IterationLocals_ranksNotRead(subg_index, lowered_subg) ==
  [subg_index |-> subg_index,
   indexed_ranks |-> Empty,
   dumped |-> DOMAIN lowered_subg.graph.ops]

\* the locals of an iteration of the executor loop before the factory is called:
\* the subgraph index, the copy of lowered_subg->indexed_ranks(), and the
\* operations the OperationDumper has visited
IterationLocals(subg_index, lowered_subg) ==
  [subg_index |-> subg_index,
   indexed_ranks |-> lowered_subg.indexed_ranks,
   dumped |-> DOMAIN lowered_subg.graph.ops]

\* an iteration of the executor loop begins: read the ranks, dump the operations
BeginExecutor(sg) ==
  /\ pc = "executors"
  /\ iter = NoIter
  /\ sg \in Unbuilt
  /\ iter' = IterationLocals(sg, lowered_subgs[sg])
  /\ UNCHANGED <<nnpkg, copts, pc, error, model, options, passLog, cur, trainable_subg,
                 pendingOps, trainable_subgraphs, lowered_subgs, inferred, validated,
                 executors, artifact, kernelVars>>

\* the iteration ends: create with std::move(lowered_subg), setIndexedRanks, emplace
CreateExecutor(sg) ==
  /\ pc = "executors"
  /\ iter # NoIter
  /\ sg = iter.subg_index
  /\ LET lowered_subg == lowered_subgs[sg]
         executor == NewExecutor(lowered_subg, options.executor, iter.indexed_ranks)
         key == ExecutorKey(sg)
     IN  /\ lowered_subgs' = [lowered_subgs EXCEPT ![sg] = Moved]
         /\ IF key \in DOMAIN executors
              THEN Throw(ErrDuplicate) /\ executors' = executors
              ELSE executors' = emplace(executors, key, executor) /\ UNCHANGED <<pc, error>>
  /\ iter' = NoIter
  /\ UNCHANGED <<nnpkg, copts, model, options, passLog, cur, trainable_subg, pendingOps,
                 trainable_subgraphs, inferred, validated, artifact, kernelVars>>

\* ExecutorFactory::create throws
CreateExecutorThrows(sg) ==
  /\ pc = "executors"
  /\ iter # NoIter
  /\ sg = iter.subg_index
  /\ lowered_subgs' = [lowered_subgs EXCEPT ![sg] = Moved]
  /\ iter' = NoIter
  /\ Throw(ErrExecutor)
  /\ UNCHANGED <<nnpkg, copts, model, options, passLog, cur, trainable_subg, pendingOps,
                 trainable_subgraphs, inferred, validated, executors, artifact,
                 kernelVars>>

\* return std::make_shared<CompilerArtifact>(executors, std::move(tracing_ctx))
Return ==
  /\ pc = "executors"
  /\ Unbuilt = {}
  /\ iter = NoIter
  /\ artifact' = [executors |-> executors]
  /\ pc' = "done"
  /\ UNCHANGED <<nnpkg, copts, error, model, options, passLog, cur, trainable_subg,
                 pendingOps, trainable_subgraphs, lowered_subgs, inferred, validated,
                 executors, iter, kernelVars>>

Next ==
  \/ Construct
  \/ PrepareCompilation
  \/ \E sg \in DOMAIN passLog : RunPass(sg)
  \/ \E sg \in DOMAIN passLog : PassThrows(sg)
  \/ \E sg \in DOMAIN passLog : DowncastFails(sg)
  \/ CheckHasOnlyGraph
  \/ \E sg \in SubgraphsOf(nnpkg) : CopyGraph(sg)
  \/ \E i \in pendingOps : ConvertOp(i)
  \/ \E i \in pendingOps : ConvertThrows(i)
  \/ StoreTrainable
  \/ ResetModel
  \/ \E sg \in DOMAIN trainable_subgraphs : Lower(sg)
  \/ \E sg \in DOMAIN trainable_subgraphs : LowerThrows(sg)
  \/ CreateInferers
  \/ Infer
  \/ InferThrows
  \/ \E sg \in DOMAIN lowered_subgs : Validate(sg)
  \/ NewExecutors
  \/ \E sg \in DOMAIN lowered_subgs : BeginExecutor(sg)
  \/ \E sg \in DOMAIN lowered_subgs : CreateExecutor(sg)
  \/ \E sg \in DOMAIN lowered_subgs : CreateExecutorThrows(sg)
  \/ Return

Spec == Init /\ [][Next]_vars

\* ================================================================ properties of compile()

\* no pass has run, nothing was converted, lowered or built, nothing was returned
NoGraphWork ==
  /\ \A sg \in DOMAIN passLog : passLog[sg] = <<>>
  /\ cur = NoSubg
  /\ trainable_subgraphs = Empty
  /\ lowered_subgs = Empty
  /\ executors = Empty
  /\ artifact = NoArtifact

\* compile() has not got past its option checks
NotPastOptionChecks == pc \in {"new", "ctor_failed", "constructed", "failed"}

\* C1: with profiling enabled and an executor other than Dataflow, compile()
\* throws a configuration error with 0 pass executions on every subgraph and
\* no conversion, lowering or executor construction.
C1_ProfilingNeedsDataflow ==
  (copts # NullOptions /\ copts.he_profiling_mode /\ copts.executor # "Dataflow")
    => /\ NotPastOptionChecks
       /\ pc = "failed" => error \in ConfigErrors
       /\ NoGraphWork

C1_Witness ==
  /\ copts # NullOptions
  /\ copts.he_profiling_mode /\ copts.he_scheduler /\ copts.executor = "Linear"
  /\ nnpkg.subgraphs_count = 1
  /\ pc = "failed"
  /\ error = ErrProfiling

\* C2: with a non-empty minmax file path and an executor other than Linear,
\* compile() throws a configuration error before any pass, conversion or lowering.
C2_MinmaxNeedsLinear ==
  (copts # NullOptions /\ copts.minmax_filepath # "" /\ copts.executor # "Linear")
    => /\ NotPastOptionChecks
       /\ pc = "failed" => error \in ConfigErrors
       /\ NoGraphWork

C2_Witness ==
  /\ copts # NullOptions
  /\ copts.minmax_filepath # "" /\ copts.executor = "Dataflow" /\ ~copts.he_profiling_mode
  /\ nnpkg.subgraphs_count = 1
  /\ pc = "failed"
  /\ error = ErrMinmax

\* C3: a package with more than one model, or whose primary model has more than
\* one subgraph, is rejected by the constructor; compile() never runs on it and
\* no graph of the package is touched.
C3_MultiRejectedAtConstruction ==
  (nnpkg.model_count > 1 \/ nnpkg.subgraphs_count > 1)
    => /\ pc \in {"new", "ctor_failed"}
       /\ pc = "ctor_failed" => error \in {ErrMultiModel, ErrMultiSubgraph}
       /\ NoGraphWork

C3_Witness ==
  /\ nnpkg.model_count = 1 /\ nnpkg.subgraphs_count > 1
  /\ copts # NullOptions /\ CheckOptions(copts) = OK
  /\ pc = "ctor_failed"
  /\ error = ErrMultiSubgraph

\* the trainable graph t holds, at exactly the indices of g, the converted
\* operation where the loop has been and the original one where it has not
IndexStable(g, t, pending) ==
  /\ DOMAIN t.ops = DOMAIN g.ops
  /\ \A i \in DOMAIN g.ops :
       t.ops[i] = IF i \in pending THEN g.ops[i] ELSE converter(g.ops[i])

\* C4: at every step of the conversion loop and in every stored trainable
\* graph, the operation index set equals that of the inference graph and the
\* replacement of operation i sits at index i.
C4_IndexStability ==
  /\ cur # NoSubg => IndexStable(model.subgraphs[cur], trainable_subg, pendingOps)
  /\ \A sg \in DOMAIN trainable_subgraphs :
       IndexStable(nnpkg.graph, trainable_subgraphs[sg], {})

C4_Witness ==
  /\ 0 \in DOMAIN trainable_subgraphs
  /\ DOMAIN trainable_subgraphs[0].ops = {0, 2}
  /\ \A i \in {0, 2} : trainable_subgraphs[0].ops[i] = [id |-> i, trainable |-> TRUE]

\* C5: a failed compile returns no artifact, and an artifact exists only once
\* every subgraph has been lowered, inferred, validated and given an executor
\* in the Executors collection the artifact holds.
C5_AllOrNothing ==
  /\ pc \in {"failed", "ctor_failed", "aborted"} => artifact = NoArtifact
  /\ error # "" => artifact = NoArtifact
  /\ artifact # NoArtifact =>
       /\ pc = "done"
       /\ artifact.executors = executors
       /\ \A sg \in SubgraphsOf(nnpkg) :
            /\ sg \in DOMAIN lowered_subgs
            /\ sg \in inferred
            /\ sg \in validated
            /\ ExecutorKey(sg) \in DOMAIN executors

C5_Witness ==
  /\ pc = "done"
  /\ artifact # NoArtifact
  /\ DOMAIN artifact.executors = {<<0, 0>>}
  /\ nnpkg.graph.ops # Empty

\* ranks order every operation of g, one rank each, producers before consumers
TopologicalRanks(g, ranks) ==
  /\ DOMAIN ranks = DOMAIN g.ops
  /\ \A a, b \in DOMAIN g.ops : a # b => ranks[a] # ranks[b]
  /\ \A p \in Reach(g.uses) : ranks[p[1]] < ranks[p[2]]

C7_ShapeTotality ==
  artifact # NoArtifact =>
    /\ 0 \in inferred
    /\ validated = DOMAIN lowered_subgs
    /\ \A k \in DOMAIN artifact.executors :
         artifact.executors[k].lowered_graph.undefined = {}

C7_Witness ==
  /\ artifact # NoArtifact
  /\ <<0, 0>> \in DOMAIN artifact.executors
  /\ Cardinality(DOMAIN artifact.executors[<<0, 0>>].lowered_graph.graph.ops) >= 2
  /\ validated = {0}

\* C8: the Executors collection of a returned artifact has exactly the keys
\* (0, subgraph index) of the model's subgraphs, each holding the executor
\* built from that subgraph; no key is emplaced twice and no key is foreign.
C8_OneExecutorPerSubgraph ==
  /\ error # ErrDuplicate
  /\ DOMAIN executors \subseteq {<<0, sg>> : sg \in SubgraphsOf(nnpkg)}
  /\ \A k \in DOMAIN executors :
       executors[k].lowered_graph.graph = trainable_subgraphs[k[2]]
  /\ artifact # NoArtifact =>
       DOMAIN artifact.executors = {<<0, sg>> : sg \in SubgraphsOf(nnpkg)}

C8_Witness ==
  /\ artifact # NoArtifact
  /\ nnpkg.subgraphs_count = 1
  /\ DOMAIN artifact.executors = {<<0, 0>>}
  /\ artifact.executors[<<0, 0>>].kind = "Dataflow"

\* ================================================================ kernel specification
InitKernel ==
  /\ nnpkg = [model_count |-> 1, subgraphs_count |-> 0, hasOnlyGraph |-> TRUE,
              graph |-> [ops |-> Empty, uses |-> {}]]
  /\ copts = NullOptions
  /\ pc = "off"
  /\ error = ""
  /\ model = NoModel
  /\ options = NullOptions
  /\ passLog = Empty
  /\ cur = NoSubg
  /\ trainable_subg = NoGraph
  /\ pendingOps = {}
  /\ trainable_subgraphs = Empty
  /\ lowered_subgs = Empty
  /\ inferred = {}
  /\ validated = {}
  /\ executors = Empty
  /\ artifact = NoArtifact
  /\ iter = NoIter
  /\ kpc = "ready"
  /\ kargs \in MSECalls \cup MSEGradCalls \cup BinaryArithmeticGradCalls
                \cup CrossEntropyCalls
  /\ kres = OutputBuffers(kargs)

\* the call returns, or leaves by the exception the kernel threw
Finish(r) ==
  /\ kpc' = IF r.status = OK THEN "returned" ELSE "thrown"
  /\ UNCHANGED <<kargs, compilerVars>>

CallMSE ==
  /\ kpc = "ready"
  /\ kargs.kernel = "MSE"
  /\ LET r == MSE(kargs.y_pred_shape, kargs.y_pred_data, kargs.y_true_shape,
                  kargs.y_true_data, kargs.output_shape, kres.output_data)
     IN  /\ kres' = [output_data |-> r.output_data]
         /\ Finish(r)

CallMSEGrad ==
  /\ kpc = "ready"
  /\ kargs.kernel = "MSEGrad"
  /\ LET r == MSEGrad(kargs.y_pred_shape, kargs.y_pred_data, kargs.y_true_shape,
                      kargs.y_true_data, kargs.grad_shape, kres.grad_data)
     IN  /\ kres' = [grad_data |-> r.grad_data]
         /\ Finish(r)

CallBinaryArithmeticGrad ==
  /\ kpc = "ready"
  /\ kargs.kernel = "BinaryArithmeticGrad"
  /\ LET r == BinaryArithmeticGrad(kargs.incoming_shape, kargs.incoming_data,
                                   kargs.lhs_grad_shape, kres.lhs_grad_data,
                                   kargs.rhs_grad_shape, kres.rhs_grad_data,
                                   kargs.arithmetic_type)
     IN  /\ kres' = [lhs_grad_data |-> r.lhs_grad_data, rhs_grad_data |-> r.rhs_grad_data]
         /\ Finish(r)

CallCategoricalCrossEntropy ==
  /\ kpc = "ready"
  /\ kargs.kernel = "CategoricalCrossEntropy"
  /\ LET r == CategoricalCrossEntropy(kargs.y_pred_data, kargs.y_true_data,
                                      kres.output_data, kargs.batch_size, kargs.input_size)
     IN  /\ kres' = [output_data |-> r.output_data]
         /\ Finish(r)

CallCategoricalCrossEntropyGrad ==
  /\ kpc = "ready"
  /\ kargs.kernel = "CategoricalCrossEntropyGrad"
  /\ LET r == CategoricalCrossEntropyGrad(kargs.y_pred_data, kargs.y_true_data,
                                          kres.grad_data, kargs.batch_size,
                                          kargs.input_size)
     IN  /\ kres' = [grad_data |-> r.grad_data]
         /\ Finish(r)

NextKernel ==
  \/ CallMSE
  \/ CallMSEGrad
  \/ CallBinaryArithmeticGrad
  \/ CallCategoricalCrossEntropy
  \/ CallCategoricalCrossEntropyGrad

SpecKernel == InitKernel /\ [][NextKernel]_vars

\* ================================================================ properties of the kernels

\* C9: MSEGrad on three tensors of one shape stores, for every element i,
\* -2 * (y_true[i] - y_pred[i]) divided by the per-batch element count, the
\* divisor of MSE, i.e. the derivative of the per-batch loss by y_pred[i].
C9_MSEGradPerBatchDivisor ==
  (kargs.kernel = "MSEGrad" /\ kpc = "returned") =>
    \A i \in 1 .. FlatSize(kargs.grad_shape) :
      FracEq(kres.grad_data[i],
             Frac(-2 * (kargs.y_true_data[i] - kargs.y_pred_data[i]),
                  FlatSizeSkipDim(kargs.y_pred_shape, 0)))

C11_UnsupportedKindsThrow ==
  (/\ kargs.kernel = "BinaryArithmeticGrad"
   /\ kargs.arithmetic_type # "kAdd"
   /\ kpc # "ready")
    => /\ kpc = "thrown"
       /\ kres.lhs_grad_data = UnwrittenBuffer(kargs.lhs_grad_shape)
       /\ kres.rhs_grad_data = UnwrittenBuffer(kargs.rhs_grad_shape)

C11_Witness ==
  /\ kargs.kernel = "BinaryArithmeticGrad"
  /\ kargs.arithmetic_type = "kSub"
  /\ kargs.lhs_grad_shape = <<2, 3>>
  /\ kargs.rhs_grad_shape = <<1, 3>>
  /\ kargs.incoming_data = <<1, 1, 0, 0, 1, 1>>
  /\ kpc = "thrown"

\* some element of the y_pred buffer is greater than 1 or less than 0
OutsideProbabilityDomain ==
  \E k \in 1 .. (kargs.batch_size * kargs.input_size) :
    kargs.y_pred_data[k] > ProbUnit \/ kargs.y_pred_data[k] < 0

\* C12: CategoricalCrossEntropy and CategoricalCrossEntropyGrad throw, leaving
\* their output or grad buffer as handed over, when some y_pred element is
\* above 1 or below 0, and do not throw when every element is in [0, 1].
C12_CrossEntropyDomain ==
  (/\ kargs.kernel \in {"CategoricalCrossEntropy", "CategoricalCrossEntropyGrad"}
   /\ kpc # "ready")
    => IF OutsideProbabilityDomain
         THEN kpc = "thrown" /\ kres = OutputBuffers(kargs)
         ELSE kpc = "returned"

C12_Witness ==
  /\ kargs.kernel = "CategoricalCrossEntropy"
  /\ kargs.batch_size = 2 /\ kargs.input_size = 2
  /\ kargs.y_pred_data = <<5, 5, 10, -1>>
  /\ kpc = "thrown"
  /\ kres.output_data = <<Unwritten>>

\* the elements of batch row b (from 1) in a buffer of `batch` equal rows
RowElements(shape, b) ==
  LET rowlen == FlatSize(shape) \div shape[1]
  IN  ((b - 1) * rowlen + 1) .. (b * rowlen)

\* C13: MSE throws without storing to the output buffer when the output shape
\* is not one-dimensional, or its extent is not the batch extent of y_pred, or
\* y_pred and y_true differ in shape; otherwise it returns with one loss per
\* batch row, the mean of the squared differences over that row.
C13_MSEShapeContract ==
  (kargs.kernel = "MSE" /\ kpc # "ready") =>
    IF \/ Len(kargs.output_shape) # 1
       \/ kargs.output_shape[1] # kargs.y_pred_shape[1]
       \/ kargs.y_pred_shape # kargs.y_true_shape
      THEN /\ kpc = "thrown"
           /\ kres.output_data = UnwrittenBuffer(kargs.output_shape)
      ELSE /\ kpc = "returned"
           /\ DOMAIN kres.output_data = 1 .. kargs.y_pred_shape[1]
           /\ \A b \in 1 .. kargs.y_pred_shape[1] :
                LET row == RowElements(kargs.y_pred_shape, b)
                    sq == [k \in row |->
                             (kargs.y_pred_data[k] - kargs.y_true_data[k])
                               * (kargs.y_pred_data[k] - kargs.y_true_data[k])]
                IN  FracEq(kres.output_data[b], Frac(SumOver(sq, row), Cardinality(row)))

C13_Witness ==
  /\ kargs.kernel = "MSE"
  /\ kargs.y_pred_shape = <<2, 3>> /\ kargs.y_true_shape = <<2, 3>>
  /\ kargs.output_shape = <<4>>
  /\ kargs.y_pred_data = <<1, 0, 0, 1, 1, 0>>
  /\ kpc = "thrown"
  /\ kres.output_data = <<Unwritten, Unwritten, Unwritten, Unwritten>>

\* C14 (refuted by the code): once conversion is over, and in every graph that is
\* lowered, each trainable subgraph holds loss-computing structure, that is an
\* operation at an index the inference graph does not have.
C14_LossInserted ==
  /\ pc = "lower" =>
       \A sg \in DOMAIN trainable_subgraphs :
         \E i \in DOMAIN trainable_subgraphs[sg].ops : i \notin DOMAIN nnpkg.graph.ops
  /\ \A sg \in DOMAIN lowered_subgs :
       lowered_subgs[sg] # Moved =>
         \E i \in DOMAIN lowered_subgs[sg].graph.ops : i \notin DOMAIN nnpkg.graph.ops

\* C15: the step between conversion and lowering keeps every operation of every
\* trainable subgraph at its index, unchanged, and keeps every dependency between
\* them; it deletes and renumbers nothing.
C15_LossStepAdditive ==
  [][(pc = "convert" /\ pc' = "lower") =>
       /\ DOMAIN trainable_subgraphs' = DOMAIN trainable_subgraphs
       /\ \A sg \in DOMAIN trainable_subgraphs :
            /\ \A i \in DOMAIN trainable_subgraphs[sg].ops :
                 /\ i \in DOMAIN trainable_subgraphs'[sg].ops
                 /\ trainable_subgraphs'[sg].ops[i] = trainable_subgraphs[sg].ops[i]
            /\ trainable_subgraphs[sg].uses \subseteq trainable_subgraphs'[sg].uses]_vars

C15_Witness ==
  /\ pc = "lower"
  /\ lowered_subgs = Empty
  /\ DOMAIN trainable_subgraphs = {0}
  /\ DOMAIN trainable_subgraphs[0].ops = {0, 2}
  /\ trainable_subgraphs[0].ops[2] = converter(InferenceOp(2))
  /\ trainable_subgraphs[0].uses = {<<2, 0>>}

\* C16 (refuted by the code): compile() with accepted options on a model that is not
\* made of plain Graphs only ends with the error "TrainingCompiler: Invalid model",
\* and converts, lowers, builds and returns nothing. (A pass that throws its own
\* error on the way is left aside: the property is about the model test.)
C16_NonGraphModelRejected ==
  (pc \notin {"new", "ctor_failed", "constructed"} /\ CheckOptions(options) = OK
     /\ ~nnpkg.hasOnlyGraph) =>
    /\ pc \in {"passes", "failed"}
    /\ pc = "failed" => error \in {ErrInvalidModel, ErrPass}
    /\ trainable_subg = NoGraph /\ trainable_subgraphs = Empty
    /\ lowered_subgs = Empty /\ executors = Empty /\ artifact = NoArtifact

\* C17: on every subgraph the passes that have run are, in this order and each at
\* most once, ConstantOutputPass, OddOutputPass, UnusedOperandEliminationPass (so
\* the optimization pass has run only after both mandatory passes); a pass is run
\* one at a time after the ones before it; and once compile() is past the pass
\* loop every subgraph has had all three exactly once.
C17_PassOrder ==
  LET order == <<"ConstantOutputPass", "OddOutputPass", "UnusedOperandEliminationPass">>
  IN  /\ \A sg \in DOMAIN passLog :
           /\ Len(passLog[sg]) <= 3
           /\ passLog[sg] = SubSeq(order, 1, Len(passLog[sg]))
      /\ pc \in {"convert", "lower", "infer", "validate", "executors", "done"} =>
           \A sg \in DOMAIN passLog : passLog[sg] = order

C17_Witness ==
  /\ pc = "convert"
  /\ DOMAIN passLog = {0}
  /\ passLog[0] = <<"ConstantOutputPass", "OddOutputPass", "UnusedOperandEliminationPass">>

\* C18: the stages of compile() follow one another, each over all subgraphs:
\* a pass has run only after the option checks passed; a graph is copied or
\* converted only after every subgraph had all its passes; a graph is lowered only
\* after every subgraph was converted and stored; shapes are inferred only after
\* every trainable subgraph was lowered; a graph is validated only after inference;
\* a lowered graph is handed to the executor factory, and an executor exists, only
\* after every lowered subgraph passed validation; the artifact is returned only
\* after every subgraph has its executor.
C18_StageOrder ==
  LET moved == {sg \in DOMAIN lowered_subgs : lowered_subgs[sg] = Moved}
  IN  /\ (\E sg \in DOMAIN passLog : passLog[sg] # <<>>) => CheckOptions(options) = OK
      /\ (trainable_subg # NoGraph \/ trainable_subgraphs # Empty) =>
           \A sg \in DOMAIN passLog : Len(passLog[sg]) = 3
      /\ lowered_subgs # Empty =>
           /\ trainable_subg = NoGraph /\ pendingOps = {}
           /\ DOMAIN trainable_subgraphs = SubgraphsOf(nnpkg)
           /\ \A sg \in DOMAIN trainable_subgraphs :
                \A i \in DOMAIN trainable_subgraphs[sg].ops :
                  trainable_subgraphs[sg].ops[i].trainable
      /\ (inferred # {} \/ pc \in {"infer", "validate", "executors", "done"}) =>
           DOMAIN lowered_subgs = DOMAIN trainable_subgraphs
      /\ (validated # {} \/ pc \in {"validate", "executors", "done"}) => inferred = {0}
      /\ (moved # {} \/ executors # Empty \/ pc \in {"executors", "done"}) =>
           validated = DOMAIN lowered_subgs
      /\ (artifact # NoArtifact \/ pc = "done") =>
           /\ moved = DOMAIN lowered_subgs
           /\ DOMAIN executors = {ExecutorKey(sg) : sg \in DOMAIN lowered_subgs}
           /\ artifact = [executors |-> executors]

C18_Witness ==
  /\ pc = "done"
  /\ DOMAIN passLog = {0}
  /\ validated = {0} /\ inferred = {0}
  /\ lowered_subgs = [sg \in {0} |-> Moved]
  /\ Cardinality(DOMAIN trainable_subgraphs[0].ops) = 3
  /\ DOMAIN artifact.executors = {<<0, 0>>}

\* C19: the compiler holds no model from the end of conversion on: whenever
\* lowering has begun or any later stage is reached the model reference is reset;
\* it is reset only when a trainable copy of every subgraph of the model exists;
\* once reset it is never set again, so no later stage has a model to read or
\* change; and what is lowered is the trainable copy.
C19_ModelReleased ==
  /\ [](/\ (lowered_subgs # Empty \/ pc \in {"lower", "infer", "validate", "executors", "done"})
              => model = NoModel
        /\ (model = NoModel /\ pc # "new") =>
              /\ DOMAIN trainable_subgraphs = SubgraphsOf(nnpkg)
              /\ trainable_subg = NoGraph
        /\ \A sg \in DOMAIN lowered_subgs :
              lowered_subgs[sg] # Moved => lowered_subgs[sg].graph = trainable_subgraphs[sg])
  /\ [][(model = NoModel /\ pc # "new") => model' = NoModel]_vars

C19_Witness ==
  /\ pc = "lower"
  /\ model = NoModel
  /\ lowered_subgs = Empty
  /\ DOMAIN trainable_subgraphs = {0}
  /\ \E i \in DOMAIN trainable_subgraphs[0].ops : trainable_subgraphs[0].ops[i].trainable

\* C20: a lowered graph is handed to the executor factory only in an iteration
\* that has read its indexed ranks and dumped its operations; the executor that
\* receives it is given exactly the ranks the graph had before the hand-off; a
\* graph handed over is never held by the compiler again; and executors already
\* emplaced are never replaced, so each lowered graph goes to one executor.
C20_OwnershipHandOff ==
  [][/\ \A sg \in DOMAIN lowered_subgs :
          /\ sg \in DOMAIN lowered_subgs'
          /\ lowered_subgs[sg] = Moved => lowered_subgs'[sg] = Moved
          /\ (lowered_subgs[sg] # Moved /\ lowered_subgs'[sg] = Moved) =>
               /\ iter # NoIter
               /\ iter.subg_index = sg
               /\ iter.indexed_ranks = lowered_subgs[sg].indexed_ranks
               /\ iter.dumped = DOMAIN lowered_subgs[sg].graph.ops
               /\ <<0, sg>> \notin DOMAIN executors
               /\ \A k \in DOMAIN executors' \ DOMAIN executors :
                    /\ k = <<0, sg>>
                    /\ executors'[k].lowered_graph = lowered_subgs[sg]
                    /\ executors'[k].indexed_ranks = lowered_subgs[sg].indexed_ranks
     /\ (\A sg \in DOMAIN lowered_subgs : lowered_subgs'[sg] = lowered_subgs[sg]) =>
          DOMAIN executors' \subseteq DOMAIN executors
     /\ \A k \in DOMAIN executors :
          k \in DOMAIN executors' /\ executors'[k] = executors[k]]_vars

C20_Witness ==
  /\ pc = "executors"
  /\ iter = NoIter
  /\ lowered_subgs = [sg \in {0} |-> Moved]
  /\ DOMAIN executors = {<<0, 0>>}
  /\ executors[<<0, 0>>].lowered_graph.graph.uses = {<<0, 1>>, <<1, 2>>}
  /\ executors[<<0, 0>>].indexed_ranks = executors[<<0, 0>>].lowered_graph.indexed_ranks

====
